---- MODULE Spec2Model ----
(***************************************************************************)
(* Model of src/src/microservice.py: an in-memory cache of CSV documents   *)
(* (csv_cache) refreshed by refrescar_cache on an APScheduler interval job *)
(* and read by two Flask endpoints, get_csv_data and cache_status.         *)
(*                                                                         *)
(* The refresher runs on a scheduler pool thread, the endpoints on request *)
(* threads.  A step of the model is one operation on the shared dict       *)
(* (clear, item assignment, membership test, subscript, one step of the    *)
(* items() iterator), which is what the interpreter executes atomically.   *)
(***************************************************************************)
EXTENDS Integers, Sequences, FiniteSets, TLC

(* ---------------------------------------------------------------- bounds *)
\* The clock (datetime.datetime.now()) is observed in 0..MaxClock.
MaxClock == 1
\* Threads of the scheduler's executor pool that are modelled.
PoolSize == 2
\* Dict states one cache_status call's history (st_seen) can hold; a call that
\* runs alongside more of them is marked st_lost and its history dropped.
MaxSeen == 2

\* The longest string cell handed to clean_value.
MaxCellLen == 5

(* ------------------------------------------------------------- constants *)
\* FILES_TO_REFRESH, in list order.
FILES_TO_REFRESH == <<"InventarioPods.csv", "InventarioGithub.csv", "InventarioPrueba.csv">>

ConfiguredKeys == {FILES_TO_REFRESH[i] : i \in 1..Len(FILES_TO_REFRESH)}

\* <path:filename> of a request: any configured key, or a name outside the list.
RequestKeys == ConfiguredKeys \cup {"Otro.csv"}

\* Mutant: the job is allowed two concurrently running instances.
max_instancesTwo == 1 + 1

\* add_job(...) passes no max_instances, so the job runs with APScheduler's
\* default of one concurrently running instance.
max_instances == 1

Workers == 1..PoolSize

(* ----------------------------------------------------------- cell values *)
\* A cell of the DataFrame: its Python type and its text, a tuple of characters.
Cell(t, v) == [t |-> t, v |-> v]

PyNone == Cell("None", <<>>)

NaN == Cell("float", <<"n", "a", "n">>)

Whitespace == {" ", "\t"}

RECURSIVE lstrip(_)
lstrip(s) == IF s # <<>> /\ Head(s) \in Whitespace THEN lstrip(Tail(s)) ELSE s

RECURSIVE rstrip(_)
rstrip(s) ==
    IF s # <<>> /\ s[Len(s)] \in Whitespace THEN rstrip(SubSeq(s, 1, Len(s) - 1)) ELSE s

\* str.strip()
strip(s) == rstrip(lstrip(s))

lowerChar(c) ==
    CASE c = "N" -> "n"
      [] c = "U" -> "u"
      [] c = "L" -> "l"
      [] c = "A" -> "a"
      [] OTHER -> c

\* str.lower()
lower(s) == [i \in 1..Len(s) |-> lowerChar(s[i])]

\* Mutant: the comparison with "null" without .lower().
clean_valueNoLower(val) ==
    IF val.t = "float" /\ val = NaN
    THEN PyNone
    ELSE IF val.t = "str"
         THEN IF strip(val.v) = <<>> \/ strip(val.v) = <<"n", "u", "l", "l">>
              THEN PyNone
              ELSE Cell("str", strip(val.v))
         ELSE val

\* clean_value(val), lines 97-111.
clean_value(val) ==
    IF val.t = "float" /\ val = NaN
    THEN PyNone
    ELSE IF val.t = "str"
         THEN IF strip(val.v) = <<>> \/ lower(strip(val.v)) = <<"n", "u", "l", "l">>
              THEN PyNone
              ELSE Cell("str", strip(val.v))
         ELSE val

\* The characters of the string cells handed to clean_value.
CellChars == {" ", "n", "u", "l", "N", "U", "L", "0"}

\* The cells pd.read_csv can put in a DataFrame: strings, NaN and the numbers
\* 0.0 and 0.
CellInputs ==
    {Cell("str", v) : v \in UNION {[1..n -> CellChars] : n \in 0..MaxCellLen}}
        \cup {NaN, Cell("float", <<"0", ".", "0">>), Cell("int", <<"0">>)}

\* The DataFrames pd.read_csv can hand to the cleaning step: one with a header
\* and no rows, one with rows (one cell per row is enough for the cache).
FrameEmpty == <<>>

FrameRows == <<NaN, Cell("str", <<" ", "0">>), Cell("str", <<"N", "U", "L", "L", " ">>), Cell("int", <<"0">>)>>

Frames == {FrameEmpty, FrameRows}

\* df.applymap(clean_value).to_dict(orient="records"), lines 114-117.
to_records(df) == [i \in 1..Len(df) |-> clean_value(df[i])]

(* -------------------------------------------------- download and convert *)
\* What requests.get / raise_for_status / pd.read_csv do for one file: raise
\* one of the three exception classes the function catches, or give a frame.
Raised == {"RequestException", "EmptyDataError", "Exception"}

FetchOutcomes == [raised : Raised, df : {<<>>}] \cup [raised : {"no"}, df : Frames]

\* The value of data_json: None, or a list of records.
JsonNone == [kind |-> "None", rows |-> <<>>]

JsonList(rows) == [kind |-> "list", rows |-> rows]

\* A key not fetched yet since the dict was last cleared.
NotAttempted == [kind |-> "unset", rows |-> <<>>]

\* Mutant: an empty or unparsable CSV counts as a CSV without rows.
descargar_y_convertir_csvLenient(o) ==
    IF o.raised = "no"
    THEN JsonList(to_records(o.df))
    ELSE IF o.raised = "EmptyDataError" THEN JsonList(<<>>) ELSE JsonNone

\* descargar_y_convertir_csv(filename), lines 80-130, given what the download did.
descargar_y_convertir_csv(o) ==
    IF o.raised = "no" THEN JsonList(to_records(o.df)) ELSE JsonNone

(* ---------------------------------------------------------------- state *)
VARIABLES
    csv_cache,       \* the dict: key -> [data, last_updated]
    csv_keys,        \* the dict's insertion order
    pc,              \* per pool thread: position in refrescar_cache
    idx,             \* per pool thread: index of filename in FILES_TO_REFRESH
    data_json,       \* per pool thread: the local data_json
    now,             \* datetime.datetime.now()
    cycle_start,     \* the clock when the running (or last) cycle was started
    results,         \* per key: what this cycle's download returned
    ever_ok,         \* keys written at least once since process start
    rd_pc, rd_key, rd_result,           \* a request thread in get_csv_data
    st_pc, st_used, st_pos, st_status,  \* a request thread in cache_status
    st_seen,         \* status views of the dict states the call has run alongside
    st_lost,         \* no history is kept for the call (off, or outlived MaxSeen)
    st_trace,        \* whether this run keeps the histories of cache_status calls
    overlapped,      \* calls in progress that ran alongside a refresh cycle
    attempts,        \* the filenames downloaded since the dict was last cleared, in order
    exc,             \* per pool thread: the exception its last download raised, or "no"
    cleared_at,      \* the clock when the dict was last cleared (0: process start)
    prev,            \* the results and the dict as the last clear found them
    cell,            \* a DataFrame cell handed to clean_value, and what came back
    lookups          \* per filename: what lookups of it have met around the last clear

vars == <<csv_cache, csv_keys, pc, idx, data_json, now, cycle_start, results,
          ever_ok, rd_pc, rd_key, rd_result, st_pc, st_used, st_pos, st_status,
          st_seen, st_lost, st_trace, overlapped, attempts, exc, cleared_at, prev,
          cell, lookups>>

refresher_vars == <<csv_cache, csv_keys, pc, idx, data_json, cycle_start,
                    results, ever_ok, attempts, exc, cleared_at, prev>>

reader_vars == <<rd_pc, rd_key, rd_result>>

status_vars == <<st_pc, st_used, st_pos, st_status, st_seen, st_lost, st_trace>>

EmptyDict == [k \in {} |-> 0]

NoResult == [kind |-> "none", body |-> <<>>]

InitDict ==
    /\ csv_cache = EmptyDict
    /\ csv_keys = <<>>
    /\ pc = [w \in Workers |-> "idle"]
    /\ idx = [w \in Workers |-> 0]
    /\ data_json = [w \in Workers |-> JsonNone]
    /\ now = 0
    /\ cycle_start = 0
    /\ results = [k \in ConfiguredKeys |-> NotAttempted]
    /\ ever_ok = {}
    /\ rd_pc = "idle"
    /\ rd_key = ""
    /\ rd_result = NoResult
    /\ st_pc = "idle"
    /\ st_used = 0
    /\ st_pos = 0
    /\ st_status = EmptyDict
    /\ st_seen = {}
    /\ st_lost = FALSE
    /\ overlapped = {}
    /\ attempts = <<>>
    /\ exc = [w \in Workers |-> "no"]
    /\ cleared_at = 0
    /\ lookups = [k \in ConfiguredKeys |-> "none"]

\* The dict's values without their timestamps.
Values(cache) == [k \in DOMAIN cache |-> cache[k].data]

\* The dict's timestamps.
Stamps(cache) == [k \in DOMAIN cache |-> cache[k].last_updated]

\* prev at process start; `on` says whether the run records it at each clear.
PrevAtStart(on) ==
    [on |-> on, results |-> [k \in ConfiguredKeys |-> NotAttempted], cache |-> EmptyDict]

\* No cell is being cleaned.
NoCell == [val |-> PyNone, out |-> PyNone, done |-> FALSE]

Init == InitDict /\ st_trace = FALSE /\ prev = PrevAtStart(FALSE) /\ cell = NoCell

\* A conversion is about to clean one cell of its DataFrame.
InitClean ==
    /\ InitDict
    /\ st_trace = FALSE
    /\ prev = PrevAtStart(FALSE)
    /\ cell \in [val : CellInputs, out : {PyNone}, done : {FALSE}]

\* The same start, keeping the histories of cache_status calls.
InitTraced == InitDict /\ st_trace = TRUE /\ prev = PrevAtStart(FALSE) /\ cell = NoCell

\* The same start, recording at each clear what the cycle before left.
InitPrev == InitDict /\ st_trace = FALSE /\ prev = PrevAtStart(TRUE) /\ cell = NoCell

(* ------------------------------------------------------------- scheduler *)
Running == {w \in Workers : pc[w] # "idle"}

\* Calls of the endpoints that have begun and not yet returned.
CallsInProgress ==
    (IF rd_pc # "idle" THEN {"get_csv_data"} ELSE {}) \cup
    (IF st_pc # "idle" THEN {"cache_status"} ELSE {})

\* The interval job fires (at start: next_run_time = now) and the executor
\* accepts it: refrescar_cache starts on a free pool thread.
TriggerRun ==
    /\ Cardinality(Running) < max_instances
    /\ \E w \in Workers :
        /\ pc[w] = "idle"
        /\ \A v \in Workers : pc[v] = "idle" => w <= v
        /\ pc' = [pc EXCEPT ![w] = "clear"]
    /\ cycle_start' = now
    /\ overlapped' = overlapped \cup CallsInProgress
    /\ UNCHANGED <<csv_cache, csv_keys, idx, data_json, now, results, ever_ok,
                   reader_vars, status_vars, attempts, exc, cleared_at, prev, cell, lookups>>

\* The interval job fires while max_instances instances are running: the
\* executor refuses the run and the scheduler only logs it.
TriggerSkip ==
    /\ Cardinality(Running) >= max_instances
    /\ UNCHANGED vars

(* ------------------------------------------------------- refrescar_cache *)
\* The status view of a dict, as cache_status computes it for one instant.
isoformat(t) == <<"T", t>>

\* The "N/A" of line 178.
NotAvailable == <<"N/A">>

\* The value built for one key by lines 174-180: the isoformat of
\* last_updated when the entry has one and "N/A" otherwise, and the length of
\* cache_data.get("data", []).
StatusOf(entry) ==
    [last_updated |-> IF "last_updated" \in DOMAIN entry
                      THEN isoformat(entry.last_updated)
                      ELSE NotAvailable,
     entries |-> Len(IF "data" \in DOMAIN entry THEN entry.data ELSE <<>>)]

Snapshot(cache) == [k \in DOMAIN cache |-> StatusOf(cache[k])]

\* The history of the cache_status call after the dict became `cache`
\* (recorded while the iteration runs, up to MaxSeen dict states).
Seen(cache) ==
    IF st_pc # "iter" \/ st_lost
    THEN [seen |-> st_seen, lost |-> st_lost]
    ELSE IF Cardinality(st_seen \cup {Snapshot(cache)}) > MaxSeen
         THEN [seen |-> {}, lost |-> TRUE]
         ELSE [seen |-> st_seen \cup {Snapshot(cache)}, lost |-> FALSE]

\* Mutant: the cycle starts without clearing the dict.
ClearedDictKeep(cache) == cache

\* csv_cache.clear(), line 137.
ClearedDict(cache) == EmptyDict

Clear(w) ==
    /\ pc[w] = "clear"
    /\ csv_cache' = ClearedDict(csv_cache)
    /\ csv_keys' = <<>>
    /\ pc' = [pc EXCEPT ![w] = "fetch"]
    /\ idx' = [idx EXCEPT ![w] = 1]
    /\ results' = [k \in ConfiguredKeys |-> NotAttempted]
    /\ attempts' = <<>>
    /\ cleared_at' = now
    /\ prev' = IF prev.on
               THEN [on |-> TRUE, results |-> results, cache |-> csv_cache]
               ELSE prev
    /\ lookups' = [k \in ConfiguredKeys |-> IF lookups[k] = "hit" THEN "cleared" ELSE "none"]
    /\ st_seen' = Seen(csv_cache').seen
    /\ st_lost' = Seen(csv_cache').lost
    /\ UNCHANGED <<data_json, now, cycle_start, ever_ok, reader_vars,
                   st_pc, st_used, st_pos, st_status, st_trace, overlapped, exc, cell>>

\* The downloads since the clear with one more: the history keeps one entry
\* more than the list has filenames, enough to tell a repeated download.
Logged(log, k) == IF Len(log) <= Len(FILES_TO_REFRESH) THEN Append(log, k) ELSE log

\* data_json = descargar_y_convertir_csv(filename), line 141.
Fetch(w) ==
    /\ pc[w] = "fetch"
    /\ \E o \in FetchOutcomes :
        /\ data_json' = [data_json EXCEPT ![w] = descargar_y_convertir_csv(o)]
        /\ results' = [results EXCEPT ![FILES_TO_REFRESH[idx[w]]] = data_json'[w]]
        /\ exc' = [exc EXCEPT ![w] = o.raised]
    /\ attempts' = Logged(attempts, FILES_TO_REFRESH[idx[w]])
    /\ pc' = [pc EXCEPT ![w] = "store"]
    /\ UNCHANGED <<csv_cache, csv_keys, idx, now, cycle_start, ever_ok,
                   reader_vars, status_vars, overlapped, cleared_at, prev, cell, lookups>>

\* Mutant: the entry is published before its last row is in place.
NewEntryTorn(d, t) ==
    [data |-> SubSeq(d.rows, 1, Len(d.rows) - 1), last_updated |-> t]

\* Mutant: the entry is stored without its timestamp.
NewEntryNoStamp(d, t) == [data |-> d.rows]

\* Mutant: the stored rows depend on when they are stored.
NewEntryStamped(d, t) ==
    [data |-> IF t = 0 THEN d.rows ELSE <<>>, last_updated |-> t]

\* The dict literal of lines 143-146.
NewEntry(d, t) == [data |-> d.rows, last_updated |-> t]

\* Mutant: `if data_json:`, which an empty list fails too.
ShouldStoreTruthy(d) == d # JsonNone /\ d.rows # <<>>

\* `if data_json is not None`, line 142.
ShouldStore(d) == d # JsonNone

\* Mutant: the loop is left at the first filename that could not be refreshed.
AfterKeyAbort(i, d) ==
    IF i < Len(FILES_TO_REFRESH) /\ d # JsonNone
    THEN [pc |-> "fetch", idx |-> i + 1]
    ELSE [pc |-> "idle", idx |-> 0]

\* Mutant: a filename that could not be refreshed is tried again at once.
AfterKeyRetry(i, d) ==
    IF d = JsonNone
    THEN [pc |-> "fetch", idx |-> i]
    ELSE IF i < Len(FILES_TO_REFRESH)
         THEN [pc |-> "fetch", idx |-> i + 1]
         ELSE [pc |-> "idle", idx |-> 0]

\* Where the for loop of line 139 goes after the body ran for index i with
\* data_json d: the next filename, or out of the loop (line 151).
AfterKey(i, d) ==
    IF i < Len(FILES_TO_REFRESH)
    THEN [pc |-> "fetch", idx |-> i + 1]
    ELSE [pc |-> "idle", idx |-> 0]

\* Mutant: the assignment also files the entry under a name outside the list.
SetItemAlias(cache, k, e) ==
    [j \in DOMAIN cache \cup {k, "Otro.csv"} |-> IF j \in {k, "Otro.csv"} THEN e ELSE cache[j]]

\* dict item assignment: a new key goes to the end of the insertion order.
SetItem(cache, k, e) == [j \in DOMAIN cache \cup {k} |-> IF j = k THEN e ELSE cache[j]]

SetItemOrder(keys, cache, k) == IF k \in DOMAIN cache THEN keys ELSE Append(keys, k)

\* Lines 142-149 for the current filename.
Store(w) ==
    /\ pc[w] = "store"
    /\ LET k == FILES_TO_REFRESH[idx[w]]
           nxt == AfterKey(idx[w], data_json[w])
       IN /\ IF ShouldStore(data_json[w])
             THEN /\ csv_cache' = SetItem(csv_cache, k, NewEntry(data_json[w], now))
                  /\ csv_keys' = SetItemOrder(csv_keys, csv_cache, k)
                  /\ ever_ok' = ever_ok \cup {k}
             ELSE UNCHANGED <<csv_cache, csv_keys, ever_ok>>
          /\ pc' = [pc EXCEPT ![w] = nxt.pc]
          /\ idx' = [idx EXCEPT ![w] = nxt.idx]
    /\ data_json' = [data_json EXCEPT ![w] = JsonNone]
    /\ exc' = [exc EXCEPT ![w] = "no"]
    /\ st_seen' = Seen(csv_cache').seen
    /\ st_lost' = Seen(csv_cache').lost
    /\ UNCHANGED <<now, cycle_start, results, reader_vars,
                   st_pc, st_used, st_pos, st_status, st_trace, overlapped,
                   attempts, cleared_at, prev, cell, lookups>>

\* Time passes.
Tick ==
    /\ now < MaxClock
    /\ now' = now + 1
    /\ UNCHANGED <<refresher_vars, reader_vars, status_vars, overlapped, cell, lookups>>

(* ---------------------------------------------------------- get_csv_data *)
\* A cycle is between its start on a pool thread and the end of its loop.
CycleRunning == Running # {}

Joined(call) == IF CycleRunning THEN overlapped \cup {call} ELSE overlapped

\* Mutant: the test looks at the configured list, not at the dict.
ContainsConfigured(cache, k) == k \in ConfiguredKeys

\* `filename in csv_cache`, line 158.
Contains(cache, k) == k \in DOMAIN cache

\* jsonify(...) of the list of records, and the 404 response of lines 163-166.
Ok(rows) == [kind |-> "200", body |-> rows]

NotFound == [kind |-> "404", body |-> <<>>]

\* An exception escaping the view function: Flask answers 500.
Fault == [kind |-> "500", body |-> <<>>]

\* Mutant: a miss leaves an empty entry behind (a setdefault-style lookup).
AfterLookupInsert(cache, k) ==
    IF k \in DOMAIN cache
    THEN cache
    ELSE [j \in DOMAIN cache \cup {k} |->
             IF j = k THEN [data |-> <<>>, last_updated |-> 0] ELSE cache[j]]

\* The dict after the membership test of line 158: the view function only
\* reads csv_cache (`in`, then the subscript), it assigns nothing.
AfterLookup(cache, k) == cache

\* The running cycle has cleared the dict and has not yet assigned k's entry.
InWindow(k) ==
    \E w \in Workers :
        /\ pc[w] \in {"fetch", "store"}
        /\ \E i \in idx[w]..Len(FILES_TO_REFRESH) : FILES_TO_REFRESH[i] = k

\* The history of lookups of k, kept when prev is: "hit" when a lookup has
\* returned a value while no cycle was running, "cleared" when the dict was
\* cleared after that, "missed" when a lookup then met the window.
Missed(k) ==
    IF prev.on /\ k \in ConfiguredKeys /\ InWindow(k) /\ ~Contains(csv_cache, k)
    THEN [lookups EXCEPT ![k] = IF @ = "cleared" THEN "missed" ELSE @]
    ELSE lookups

Hit(k) ==
    IF prev.on /\ k \in DOMAIN csv_cache /\ ~CycleRunning
    THEN [lookups EXCEPT ![k] = IF @ = "none" THEN "hit" ELSE @]
    ELSE lookups

\* The request arrives and line 158 tests membership.
GetBegin(k) ==
    /\ rd_pc = "idle"
    /\ rd_key' = k
    /\ IF Contains(csv_cache, k)
       THEN rd_pc' = "found" /\ rd_result' = NoResult
       ELSE rd_pc' = "done" /\ rd_result' = NotFound
    /\ csv_cache' = AfterLookup(csv_cache, k)
    /\ lookups' = Missed(k)
    /\ overlapped' = Joined("get_csv_data")
    /\ UNCHANGED <<csv_keys, pc, idx, data_json, cycle_start, results, ever_ok,
                   attempts, exc, cleared_at, prev, now, status_vars, cell>>

\* csv_cache[filename]["data"], line 160: a KeyError when the key is gone.
GetSubscript ==
    /\ rd_pc = "found"
    /\ rd_pc' = "done"
    /\ rd_result' = IF rd_key \in DOMAIN csv_cache
                    THEN Ok(csv_cache[rd_key].data)
                    ELSE Fault
    /\ lookups' = Hit(rd_key)
    /\ overlapped' = Joined("get_csv_data")
    /\ UNCHANGED <<rd_key, refresher_vars, now, status_vars, cell>>

\* The response has been sent.
GetReturn ==
    /\ rd_pc = "done"
    /\ rd_pc' = "idle"
    /\ rd_key' = ""
    /\ rd_result' = NoResult
    /\ overlapped' = overlapped \ {"get_csv_data"}
    /\ UNCHANGED <<refresher_vars, now, status_vars, cell, lookups>>

(* ---------------------------------------------------------- cache_status *)
\* csv_cache.items() and iter(): the iterator remembers the dict's size.
StatusBegin ==
    /\ st_pc = "idle"
    /\ st_pc' = "iter"
    /\ st_used' = Cardinality(DOMAIN csv_cache)
    /\ st_pos' = 0
    /\ st_status' = EmptyDict
    /\ st_seen' = IF st_trace THEN {Snapshot(csv_cache)} ELSE {}
    /\ st_lost' = ~st_trace
    /\ overlapped' = Joined("cache_status")
    /\ UNCHANGED <<st_trace, refresher_vars, now, reader_vars, cell, lookups>>

\* One step of the comprehension of lines 173-182: the iterator raises
\* RuntimeError when the dict's size changed, stops at the end of the entries,
\* and otherwise yields the entry at its position.
StatusNext ==
    /\ st_pc = "iter"
    /\ IF Cardinality(DOMAIN csv_cache) # st_used
       THEN /\ st_pc' = "fault"
            /\ UNCHANGED <<st_pos, st_status>>
       ELSE IF st_pos >= Len(csv_keys)
            THEN /\ st_pc' = "done"
                 /\ UNCHANGED <<st_pos, st_status>>
            ELSE /\ st_pc' = "iter"
                 /\ st_pos' = st_pos + 1
                 /\ st_status' = SetItem(st_status, csv_keys[st_pos + 1],
                                         StatusOf(csv_cache[csv_keys[st_pos + 1]]))
    /\ overlapped' = Joined("cache_status")
    /\ UNCHANGED <<st_used, st_seen, st_lost, st_trace, refresher_vars, now, reader_vars,
                   cell, lookups>>

\* The response (jsonify(status), or the 500) has been sent.
StatusReturn ==
    /\ st_pc \in {"done", "fault"}
    /\ st_pc' = "idle"
    /\ st_used' = 0
    /\ st_pos' = 0
    /\ st_status' = EmptyDict
    /\ st_seen' = {}
    /\ st_lost' = FALSE
    /\ overlapped' = overlapped \ {"cache_status"}
    /\ UNCHANGED <<st_trace, refresher_vars, now, reader_vars, cell, lookups>>

(* ----------------------------------------------------------- clean_value *)
\* df.applymap calls clean_value on the cell, line 114.
CleanCell ==
    /\ ~cell.done
    /\ cell' = [val |-> cell.val, out |-> clean_value(cell.val), done |-> TRUE]
    /\ UNCHANGED <<refresher_vars, reader_vars, status_vars, now, overlapped, lookups>>

(* --------------------------------------------------------- specification *)
\* The scheduler, the pool threads and the clock.
NextRefresh ==
    \/ TriggerRun
    \/ TriggerSkip
    \/ \E w \in Workers : Clear(w)
    \/ \E w \in Workers : Fetch(w)
    \/ \E w \in Workers : Store(w)
    \/ Tick

NextGet ==
    \/ \E k \in RequestKeys : GetBegin(k)
    \/ GetSubscript
    \/ GetReturn

NextStatusCall ==
    \/ StatusBegin
    \/ StatusNext
    \/ StatusReturn

\* The refresher and a get_csv_data request thread.
Next == NextRefresh \/ NextGet

Spec == Init /\ [][Next]_vars

\* The refresher and a cache_status request thread, with the calls' histories kept.
NextStatus == NextRefresh \/ NextStatusCall

SpecStatus == InitTraced /\ [][NextStatus]_vars

\* The refresher and both endpoints, with the clock standing still.
NextQuery ==
    \/ TriggerRun
    \/ TriggerSkip
    \/ \E w \in Workers : Clear(w)
    \/ \E w \in Workers : Fetch(w)
    \/ \E w \in Workers : Store(w)
    \/ NextGet
    \/ NextStatusCall

SpecQuery == Init /\ [][NextQuery]_vars

\* The scheduler and the pool threads under the fairness their threads have:
\* the interval timer keeps firing, and a running refrescar_cache keeps running
\* (every download returns or times out).
Fairness ==
    /\ WF_vars(TriggerRun)
    /\ \A w \in Workers : WF_vars(Clear(w)) /\ WF_vars(Fetch(w)) /\ WF_vars(Store(w))

SpecLive == Init /\ [][NextRefresh]_vars /\ Fairness

\* clean_value applied to one cell, for every cell of CellInputs.
SpecClean == InitClean /\ [][CleanCell]_vars

\* The scheduler, the pool threads and the clock, with what each cycle left
\* behind recorded when the next one clears the dict.
SpecCycles == InitPrev /\ [][NextRefresh]_vars

\* The refresher and a get_csv_data request thread with the clock standing
\* still, recording what each clear found and what the lookups met.
NextWindow ==
    \/ TriggerRun
    \/ TriggerSkip
    \/ \E w \in Workers : Clear(w)
    \/ \E w \in Workers : Fetch(w)
    \/ \E w \in Workers : Store(w)
    \/ NextGet

SpecWindow == InitPrev /\ [][NextWindow]_vars

(* ---------------------------------------------------------------- claims *)
Index(k) == CHOOSE i \in 1..Len(FILES_TO_REFRESH) : FILES_TO_REFRESH[i] = k

\* A cycle has run to its end and none is running: the first filename of the
\* list has a result and every pool thread is idle.
CycleCompleted == Running = {} /\ results[FILES_TO_REFRESH[1]] # NotAttempted

\* The keys whose download and conversion gave a list since the last clear.
Succeeded == {k \in ConfiguredKeys : results[k].kind = "list"}

\* The values a complete conversion can produce.
CompleteValues == {to_records(df) : df \in Frames}

\* The step of get_csv_data that reads the entry (line 160).
ReadStep == rd_pc = "found" /\ rd_pc' = "done"

\* C1: for every key and every interleaving of a reader with a refresh cycle,
\* get_csv_data ends in success (200) or not-found (404), never in an internal
\* fault, also when the dict is cleared between the membership test and the
\* read of the entry.
C1_LookupNeverFaults == rd_pc = "done" => rd_result.kind \in {"200", "404"}

\* C2: entries are never partially written.  Every entry of the dict carries a
\* complete converted value together with its last_updated, and every lookup
\* that returns a value returns the complete value some cycle's conversion
\* produced for that key: the previous cycle's while the running cycle has not
\* cleared the dict, the running cycle's afterwards.
EntriesWhole ==
    \A k \in DOMAIN csv_cache :
        /\ DOMAIN csv_cache[k] = {"data", "last_updated"}
        /\ csv_cache[k].data \in CompleteValues
        /\ csv_cache[k].last_updated \in 0..MaxClock

C2_NoTornEntry ==
    [][/\ EntriesWhole'
       /\ (ReadStep /\ rd_result'.kind = "200") =>
              /\ rd_key \in Succeeded
              /\ rd_result'.body = results[rd_key].rows]_vars

\* C2 witness: a lookup that ran alongside a refresh cycle returned rows.
C2_Witness ==
    /\ rd_pc = "done"
    /\ rd_result.kind = "200"
    /\ rd_result.body # <<>>
    /\ "get_csv_data" \in overlapped
    /\ CycleRunning

\* C3: failure isolation within a cycle.  When a cycle has completed in which
\* key K could not be refreshed, every other key J was attempted all the same,
\* and J's entry is what J's own refresh gave: present with its converted value
\* if it succeeded, absent otherwise.
C3_FailureIsolation ==
    CycleCompleted =>
        \A K \in ConfiguredKeys, J \in ConfiguredKeys :
            (K # J /\ results[K] = JsonNone) =>
                /\ results[J] # NotAttempted
                /\ J \in Succeeded =>
                      J \in DOMAIN csv_cache /\ csv_cache[J].data = results[J].rows
                /\ results[J] = JsonNone => J \notin DOMAIN csv_cache

\* C3 witness: a completed cycle in which an earlier key failed and a later
\* key succeeded and is in the dict with rows.
C3_Witness ==
    /\ CycleCompleted
    /\ \E K \in ConfiguredKeys, J \in ConfiguredKeys :
        /\ Index(K) < Index(J)
        /\ results[K] = JsonNone
        /\ J \in DOMAIN csv_cache
        /\ csv_cache[J].data # <<>>

\* A call of get_csv_data that has ended and ran alongside no refresh cycle.
QuietGet == rd_pc = "done" /\ "get_csv_data" \notin overlapped

\* C4: after a cycle in which K's download and conversion succeeded, and until
\* the next cycle starts, K's entry holds exactly the converted value with a
\* last_updated no earlier than the start of that cycle, and a lookup of K
\* returns exactly that value.
C4_ValueAfterCycle ==
    CycleCompleted =>
        /\ \A K \in Succeeded :
              /\ K \in DOMAIN csv_cache
              /\ csv_cache[K].data = results[K].rows
              /\ csv_cache[K].last_updated >= cycle_start
        /\ (QuietGet /\ rd_key \in Succeeded) =>
              rd_result = Ok(results[rd_key].rows)

\* C4 witness: after a cycle that started when the clock had advanced, a
\* lookup wholly after the cycle has answered for a key that succeeded.
C4_Witness ==
    /\ CycleCompleted
    /\ QuietGet
    /\ rd_key \in Succeeded
    /\ cycle_start > 0
    /\ (Succeeded \ {rd_key}) # {}
    /\ Succeeded # ConfiguredKeys

\* The refresh of k has succeeded since the dict was last cleared: its download
\* gave a list and the assignment of lines 143-146 has run.
RefreshedSinceClear(k) ==
    /\ k \in Succeeded
    /\ ~\E w \in Workers : pc[w] = "store" /\ FILES_TO_REFRESH[idx[w]] = k

\* C5: in every reachable state a key is in csv_cache if and only if a refresh
\* of that key has succeeded since the most recent clear of the dict (or since
\* process start when no cycle has cleared it yet).
C5_PresentIffRefreshed ==
    /\ DOMAIN csv_cache \subseteq ConfiguredKeys
    /\ \A k \in ConfiguredKeys : k \in DOMAIN csv_cache <=> RefreshedSinceClear(k)

\* C5 witness: in the middle of a cycle that follows a cycle in which the
\* last key had succeeded, the first key is in the dict, the second failed and
\* the last has not been attempted.
C5_Witness ==
    /\ FILES_TO_REFRESH[1] \in DOMAIN csv_cache
    /\ results[FILES_TO_REFRESH[2]] = JsonNone
    /\ results[FILES_TO_REFRESH[3]] = NotAttempted
    /\ FILES_TO_REFRESH[3] \in ever_ok
    /\ FILES_TO_REFRESH[3] \notin DOMAIN csv_cache

\* C6: a key whose refresh has never succeeded since process start is never
\* found: every lookup of it ends at the membership test with NotFound (404).
C6_NeverRefreshedNotFound ==
    (rd_pc # "idle" /\ rd_key \notin ever_ok) =>
        rd_pc = "done" /\ rd_result = NotFound

\* C6 witness: after other keys have been refreshed, a lookup has answered for
\* a configured key whose every refresh so far has failed.
C6_Witness ==
    /\ rd_pc = "done"
    /\ rd_key \in ConfiguredKeys \ ever_ok
    /\ results[rd_key] = JsonNone
    /\ ever_ok # {}
    /\ rd_result = NotFound

\* A call of cache_status that has ended and ran alongside no refresh cycle.
QuietStatus == st_pc \in {"done", "fault"} /\ "cache_status" \notin overlapped

\* C7: reset-then-refill.  When a cycle has completed, and until the next one
\* starts, the dict holds exactly the keys whose refresh succeeded in that
\* cycle; a lookup of a key that failed in it returns NotFound and the status
\* endpoint answers with exactly the keys that succeeded, whatever the dict
\* held from earlier cycles.
C7_FailedKeyEvicted ==
    CycleCompleted =>
        /\ DOMAIN csv_cache = Succeeded
        /\ (QuietGet /\ rd_key \in ConfiguredKeys \ Succeeded) => rd_result = NotFound
        /\ QuietStatus => st_pc = "done" /\ DOMAIN st_status = Succeeded

\* C7 witness: a key refreshed in an earlier cycle failed in the completed
\* one; a lookup of it and a status call, both wholly after the cycle, have
\* answered, the status call listing another key.
C7_Witness ==
    /\ CycleCompleted
    /\ QuietGet
    /\ QuietStatus
    /\ rd_key \in ever_ok
    /\ results[rd_key] = JsonNone
    /\ DOMAIN st_status # {}

\* C8: refresh cycles run serially: at most one execution of refrescar_cache is
\* in progress in any reachable state (a firing of the interval job while one
\* runs is refused by TriggerSkip and starts nothing).
C8_CyclesSerial == Cardinality(Running) <= 1

\* C8 witness: the interval job fires while a cycle is in the middle of its
\* loop, and the firing is refused.
C8_Witness ==
    /\ ENABLED TriggerSkip
    /\ ~ENABLED TriggerRun
    /\ \E w \in Workers : pc[w] = "store" /\ idx[w] = 2

\* C9: cache_status is an atomic snapshot: for every interleaving with a cycle
\* the call ends without a fault and what it reports (the keys, each with its
\* last_updated and number of records) is the status view of the dict as it
\* was at one instant during the call.
C9_StatusAtomic ==
    st_pc \in {"done", "fault"} =>
        /\ st_pc = "done"
        /\ st_lost \/ st_status \in st_seen

\* C10: after the run fired at process start the scheduler keeps starting
\* cycles for ever, whatever the cycles' outcomes: under fairness there are
\* infinitely many cycle starts.
C10_CyclesForever == []<><<TriggerRun>>_vars

\* C10 witness: a new cycle has started after a cycle in which one key's
\* download failed and another's succeeded.
C10_Witness ==
    /\ \E w \in Workers : pc[w] = "clear"
    /\ \E k \in ConfiguredKeys : results[k] = JsonNone
    /\ Succeeded # {}

\* The fields of a cache_status call that the view function itself assigns.
status_call == <<st_pc, st_used, st_pos, st_status>>

\* C11: the query surface is read-only.  A step of get_csv_data or of
\* cache_status leaves the dict as it was and starts no download; the dict
\* changes only in a step of refrescar_cache, by the clear (which empties it)
\* or by the assignment for the one key being refreshed (which leaves every
\* other key's entry alone).
C11_QueriesReadOnly ==
    [][/\ (reader_vars' # reader_vars \/ status_call' # status_call) =>
              UNCHANGED <<csv_cache, csv_keys, pc, idx, data_json, results, attempts>>
       /\ (csv_cache' # csv_cache) =>
              \E w \in Workers :
                  \/ pc[w] = "clear" /\ pc'[w] = "fetch" /\ csv_cache' = EmptyDict
                  \/ /\ pc[w] = "store" /\ pc'[w] # "store"
                     /\ DOMAIN csv_cache' = DOMAIN csv_cache \cup {FILES_TO_REFRESH[idx[w]]}
                     /\ \A k \in DOMAIN csv_cache \ {FILES_TO_REFRESH[idx[w]]} :
                            csv_cache'[k] = csv_cache[k]]_vars

\* C11 witness: in the middle of a cycle whose first key is in the dict, a
\* lookup of a key that is not there and a status call have both answered,
\* and the dict still holds what the cycle wrote.
C11_Witness ==
    /\ CycleRunning
    /\ rd_pc = "done" /\ rd_result = NotFound /\ rd_key \in ConfiguredKeys
    /\ st_pc = "done" /\ DOMAIN st_status = {FILES_TO_REFRESH[1]}
    /\ DOMAIN csv_cache = {FILES_TO_REFRESH[1]}

\* The keys whose download gave a CSV with no data rows since the last clear.
EmptySucceeded == {k \in ConfiguredKeys : results[k] = JsonList(<<>>)}

\* C12: not-found is distinct from empty success.  When a cycle has completed
\* in which K's download and conversion gave zero records, K is in the dict
\* with an empty list, a lookup of K answers 200 with the empty list and not
\* NotFound, and cache_status lists K with 0 entries; and a lookup answers
\* NotFound only when its membership test found the key absent from the dict.
C12_EmptyIsNotMissing ==
    [][/\ CycleCompleted' =>
              \A K \in EmptySucceeded' :
                  /\ K \in DOMAIN csv_cache'
                  /\ csv_cache'[K].data = <<>>
                  /\ (QuietGet' /\ rd_key' = K) =>
                         rd_result' = Ok(<<>>) /\ rd_result' # NotFound
                  /\ QuietStatus' =>
                         /\ st_pc' = "done"
                         /\ K \in DOMAIN st_status'
                         /\ st_status'[K].entries = 0
       /\ (rd_pc = "idle" /\ rd_result' = NotFound) =>
              rd_key' \notin DOMAIN csv_cache]_vars

\* C12 witness: after a cycle in which one key gave zero records and another
\* failed, a lookup of the first has answered 200 with the empty list and a
\* status call lists it with 0 entries, both wholly after the cycle.
C12_Witness ==
    /\ CycleCompleted
    /\ QuietGet
    /\ rd_key \in EmptySucceeded
    /\ rd_result = Ok(<<>>)
    /\ QuietStatus
    /\ rd_key \in DOMAIN st_status
    /\ st_status[rd_key].entries = 0
    /\ \E k \in ConfiguredKeys : results[k] = JsonNone

\* The completed cycle follows a completed cycle in which every download
\* returned the same content, or failed the same way, as in this one.
SameAsBefore ==
    /\ CycleCompleted
    /\ prev.results[FILES_TO_REFRESH[1]] # NotAttempted
    /\ prev.results = results

\* C13: idempotence of the cycle.  When two consecutive complete cycles meet
\* identical upstream content and identical per-key outcomes, the dict after
\* the second holds the same keys with the same values as after the first;
\* only the entries' last_updated may differ.
C13_CycleIdempotent ==
    SameAsBefore =>
        /\ DOMAIN csv_cache = DOMAIN prev.cache
        /\ Values(csv_cache) = Values(prev.cache)

\* C13 witness: two consecutive complete cycles with the same outcomes, one
\* key failing and one giving rows, left the same values with a later
\* last_updated.
C13_Witness ==
    /\ SameAsBefore
    /\ \E k \in ConfiguredKeys : results[k] = JsonNone
    /\ \E k \in DOMAIN csv_cache :
          /\ csv_cache[k].data # <<>>
          /\ csv_cache[k].last_updated > prev.cache[k].last_updated

\* A string of whitespace only: empty after trimming.
IsBlank(s) == \A i \in 1..Len(s) : s[i] \in Whitespace

\* A string equal to "null" ignoring case.
NullLetters == <<{"n", "N"}, {"u", "U"}, {"l", "L"}, {"l", "L"}>>

IsNullWord(s) == Len(s) = Len(NullLetters) /\ \A i \in 1..Len(s) : s[i] \in NullLetters[i]

\* A string that equals "null" ignoring case once the whitespace around it is
\* trimmed.
IsPaddedNull(s) ==
    \E i \in 1..Len(s) :
        /\ i + Len(NullLetters) - 1 <= Len(s)
        /\ IsBlank(SubSeq(s, 1, i - 1))
        /\ IsNullWord(SubSeq(s, i, i + Len(NullLetters) - 1))
        /\ IsBlank(SubSeq(s, i + Len(NullLetters), Len(s)))

\* "0" and 0 come back as they went in.
ZeroKept ==
    /\ cell.val = Cell("str", <<"0">>) => cell.out = Cell("str", <<"0">>)
    /\ cell.val = Cell("int", <<"0">>) => cell.out = Cell("int", <<"0">>)

\* C14 as stated: the result of clean_value is None exactly when the cell is a
\* string that is empty after trimming whitespace, a string equal to "null"
\* ignoring case, or a numeric NaN; "0" and 0 are not mapped to None.
C14_NoneExactlyAsStated ==
    cell.done =>
        /\ cell.out = PyNone <=>
              \/ cell.val.t = "str" /\ (IsBlank(cell.val.v) \/ IsNullWord(cell.val.v))
              \/ cell.val = NaN
        /\ ZeroKept

\* C14, amended: the result of clean_value is None exactly when the cell is a
\* string that, after trimming whitespace, is empty or equals "null" ignoring
\* case, or a numeric NaN; every other cell, "0" and 0 among them, is not
\* mapped to None.
C14_NoneExactlyTrimmed ==
    cell.done =>
        /\ cell.out = PyNone <=>
              \/ cell.val.t = "str" /\ (IsBlank(cell.val.v) \/ IsPaddedNull(cell.val.v))
              \/ cell.val = NaN
        /\ ZeroKept

\* C14 witness: clean_value has returned None for "NULL" with whitespace
\* around it, a string that is not itself equal to "null" ignoring case.
C14_Witness ==
    /\ cell.done
    /\ cell.val.t = "str"
    /\ IsPaddedNull(cell.val.v)
    /\ ~IsNullWord(cell.val.v)
    /\ \E i \in 1..Len(cell.val.v) : cell.val.v[i] = "N"
    /\ cell.out = PyNone

\* The first n filenames of the configured list.
FirstKeys(n) == SubSeq(FILES_TO_REFRESH, 1, n)

\* C15: within a cycle each configured key is attempted exactly once, in the
\* order of the list, with no retry and no skip, and the cycle ends after the
\* last key.  The downloads since the clear are always the first keys of the
\* list, one each: those before the running thread's key while it downloads,
\* up to its key once the download returned, and the whole list, once, when
\* the cycle has ended.
C15_EachKeyOnceInOrder ==
    /\ Len(attempts) <= Len(FILES_TO_REFRESH)
    /\ attempts = FirstKeys(Len(attempts))
    /\ \A w \in Workers :
          /\ pc[w] = "fetch" => attempts = FirstKeys(idx[w] - 1)
          /\ pc[w] = "store" => attempts = FirstKeys(idx[w])
    /\ (\A w \in Workers : pc[w] \in {"idle", "clear"}) =>
          attempts \in {<<>>, FILES_TO_REFRESH}
    /\ CycleCompleted => attempts = FILES_TO_REFRESH

\* C15 witness: a cycle has ended in which the first key failed and the
\* last succeeded; the list was gone through once.
C15_Witness ==
    /\ CycleCompleted
    /\ attempts = FILES_TO_REFRESH
    /\ results[FILES_TO_REFRESH[1]] = JsonNone
    /\ results[FILES_TO_REFRESH[Len(FILES_TO_REFRESH)]].kind = "list"

\* The transform failures: what pd.read_csv and the cleaning can raise, as
\* opposed to the RequestException of the download.
TransformFailures == Raised \ {"RequestException"}

\* C16: a transform failure is handled exactly like a fetch failure.  Whatever
\* the exception class (RequestException of the download, EmptyDataError or
\* any other Exception of the conversion), descargar_y_convertir_csv returns
\* the same None, refrescar_cache writes no entry for the key and leaves the
\* dict as it was, and the loop goes on to the next key (or ends after the
\* last).
C16_TransformLikeFetchFailure ==
    [][\A w \in Workers :
          (pc[w] = "store" /\ exc[w] \in Raised /\ pc'[w] # pc[w]) =>
              /\ data_json[w] = JsonNone
              /\ results[FILES_TO_REFRESH[idx[w]]] = JsonNone
              /\ csv_cache' = csv_cache
              /\ FILES_TO_REFRESH[idx[w]] \notin DOMAIN csv_cache'
              /\ IF idx[w] < Len(FILES_TO_REFRESH)
                 THEN pc'[w] = "fetch" /\ idx'[w] = idx[w] + 1
                 ELSE pc'[w] = "idle"]_vars

\* C16 witness: after the first key was stored, the conversion of the second
\* raised a transform failure and the function has returned None; the key
\* is not in the dict and the loop is about to go on.
C16_Witness ==
    \E w \in Workers :
        /\ pc[w] = "store"
        /\ idx[w] = 2
        /\ exc[w] \in TransformFailures
        /\ data_json[w] = JsonNone
        /\ DOMAIN csv_cache = {FILES_TO_REFRESH[1]}
        /\ FILES_TO_REFRESH[2] \in ever_ok

\* C17: the reset-then-refill availability window.  A lookup of K whose
\* membership test runs after the cycle's clear and before the cycle's
\* assignment for K answers NotFound, whether or not K was in the dict before
\* the cycle and whether or not K's refresh in the cycle succeeds; and there
\* is an execution (the witness) in which K was present before the cycle, a
\* lookup before it returned a value, the lookup in the window answered
\* NotFound, K's refresh succeeded and a lookup after the cycle returns a value.
C17_WindowNotFound ==
    [][\A K \in ConfiguredKeys :
          (rd_pc = "idle" /\ rd_pc' # "idle" /\ rd_key' = K /\ InWindow(K)) =>
              rd_pc' = "done" /\ rd_result' = NotFound]_vars

\* C17 witness: K was in the dict when the cycle cleared it and a lookup of
\* K before the cycle had returned a value; a lookup of K in the window
\* answered NotFound; the cycle has completed with K refreshed, and a lookup
\* of K wholly after the cycle has returned K's rows.
C17_Witness ==
    \E K \in ConfiguredKeys :
        /\ K \in DOMAIN prev.cache
        /\ lookups[K] = "missed"
        /\ CycleCompleted
        /\ K \in Succeeded
        /\ QuietGet
        /\ rd_key = K
        /\ rd_result = Ok(results[K].rows)
        /\ rd_result.body # <<>>

\* A cycle has started and has not reached its clear(): the thread is at the
\* log line 136.
CycleBeforeClear == \E w \in Workers : pc[w] = "clear"

\* C18 as stated: no entry survives the start of a cycle.  In every reachable
\* state every entry of the dict was written by the most recently started
\* cycle, with a last_updated no earlier than the start of that cycle.
C18_NoEntrySurvivesStart ==
    \A k \in DOMAIN csv_cache :
        /\ ~CycleBeforeClear
        /\ RefreshedSinceClear(k)
        /\ csv_cache[k].last_updated >= cycle_start

\* C18, amended: no entry survives the clear of a cycle.  After every step,
\* every entry of the dict was written since the most recent clear, by the
\* cycle that cleared: it holds the rows that cycle downloaded for the key and
\* a last_updated no earlier than the clear; and a lookup that reads the dict
\* returns rows downloaded since the most recent clear, never those of a
\* cycle before it.
C18_NoEntrySurvivesClear ==
    [][/\ \A k \in DOMAIN csv_cache' :
              /\ RefreshedSinceClear(k)'
              /\ csv_cache'[k].data = results'[k].rows
              /\ csv_cache'[k].last_updated >= cleared_at'
       /\ (ReadStep /\ rd_result'.kind = "200") =>
              /\ RefreshedSinceClear(rd_key)
              /\ rd_result'.body = csv_cache[rd_key].data
              /\ csv_cache[rd_key].last_updated >= cleared_at]_vars

\* C18 witness: a later cycle cleared the dict when the clock had advanced; a
\* key of an earlier cycle is gone, and a lookup during the cycle has returned
\* the rows of an entry written after the clear.
C18_Witness ==
    /\ cleared_at > 0
    /\ CycleRunning
    /\ ~CycleBeforeClear
    /\ ever_ok \ DOMAIN csv_cache # {}
    /\ rd_pc = "done"
    /\ rd_result.kind = "200"
    /\ rd_key \in DOMAIN csv_cache
    /\ csv_cache[rd_key].last_updated >= cleared_at

\* C19: in every reachable state the keys of the dict are among the
\* filenames of FILES_TO_REFRESH, and a lookup of a filename outside the list
\* ends at the membership test with NotFound, at every point of every
\* execution.
C19_OnlyConfiguredKeys ==
    /\ DOMAIN csv_cache \subseteq ConfiguredKeys
    /\ (rd_pc # "idle" /\ rd_key \notin ConfiguredKeys) =>
          rd_pc = "done" /\ rd_result = NotFound

\* C19 witness: with every configured filename in the dict, a lookup of a
\* filename outside the list has answered NotFound.
C19_Witness ==
    /\ DOMAIN csv_cache = ConfiguredKeys
    /\ rd_pc = "done"
    /\ rd_key \in RequestKeys \ ConfiguredKeys
    /\ rd_result = NotFound

\* cache_status would take a fallback for this entry: "N/A" for a missing
\* last_updated, or the empty-list default for missing data.
TakesFallback(entry) == "last_updated" \notin DOMAIN entry \/ "data" \notin DOMAIN entry

\* C20: every entry ever in the dict has both fields, a data list that came
\* from a download that returned a list (never None) and a last_updated
\* timestamp; so cache_status never takes the "N/A" fallback nor the
\* empty-list default, and no status it builds reports "N/A".
C20_FallbacksNeverTaken ==
    /\ \A k \in DOMAIN csv_cache :
          /\ ~TakesFallback(csv_cache[k])
          /\ results[k].kind = "list"
          /\ csv_cache[k].data = results[k].rows
          /\ csv_cache[k].last_updated \in 0..MaxClock
    /\ \A k \in DOMAIN st_status : st_status[k].last_updated # NotAvailable

\* C20 witness: a cache_status call has answered with every configured
\* key, each with the timestamp of its entry, one of them with the 0 entries
\* of an entry whose data is the empty list and one with rows.
C20_Witness ==
    /\ st_pc = "done"
    /\ DOMAIN st_status = ConfiguredKeys
    /\ DOMAIN csv_cache = ConfiguredKeys
    /\ \A k \in ConfiguredKeys : st_status[k] = StatusOf(csv_cache[k])
    /\ \E k \in ConfiguredKeys : st_status[k].entries = 0 /\ csv_cache[k].data = <<>>
    /\ \E k \in ConfiguredKeys : st_status[k].entries > 0

====
